---- MODULE Spec2Model ----
(***************************************************************************)
(* Customer Feedback Insights (src/app.py): one render pass of the script  *)
(* as a state machine.  load_data normalises the uploaded CSV, the sidebar *)
(* picks the product/date filters, the KPI query runs in SQLite, the       *)
(* negative-insight mask/sort/keyword pipeline runs in pandas, and the two *)
(* exports are built.                                                      *)
(*                                                                         *)
(* Encoding.  A CSV cell is a string; the empty string is the missing cell *)
(* (pandas NaN).  A timestamp is the number of minutes since 2024-01-00    *)
(* 00:00, so day d of January at hh:mm is d*1440 + hh*60 + mm; a calendar  *)
(* date (created_at_date, the date_input values) is the day number d,      *)
(* which orders as the 'YYYY-MM-DD' strings SQLite compares.  Averages     *)
(* rounded to 2 decimals are integers in hundredths.                       *)
(***************************************************************************)
EXTENDS Integers, Sequences, FiniteSets, TLC

VARIABLES
  uploaded,        \* the CSV handed to pd.read_csv: [header, rows]
  pc,              \* position of the script
  columns,         \* df.columns after load_data
  rename,          \* load_data's rename dict, as target -> renamed column ("" none)
  df,              \* the canonical table load_data returns
  sel_products,    \* sidebar multiselect
  sel_dates,       \* sidebar date_input: <<start_date, end_date>>
  kpi,             \* the KPI metrics shown
  neg_threshold,   \* slider
  sort_mode,       \* selectbox
  keyword_filter,  \* text_input
  neg_df,          \* the sorted negative slice
  kw_summary,      \* keyword table
  neg_export,      \* exported negative slice
  full_slice,      \* full filtered export
  rerun            \* the slice-then-sort step applied to neg_df itself

vars == <<uploaded, pc, columns, rename, df, sel_products, sel_dates, kpi,
          neg_threshold, sort_mode, keyword_filter, neg_df, kw_summary,
          neg_export, full_slice, rerun>>

\* Largest number of data rows of an uploaded CSV.
MaxRows == 2

\* pd.NaT / NaN of a numeric column (errors="coerce").
NaT == -1
NaN == -1
\* NaN of a string column: read_csv reads the empty cell as missing.
NA == ""

(***************************************************************************)
(* Library conversions, on the cells the inputs are drawn from.            *)
(***************************************************************************)
\* str.strip() of a header name.
strip(c) ==
  CASE c = " stars" -> "stars"
    [] c = "comment " -> "comment"
    [] OTHER -> c

\* str.lower() of a header name.
lower_str(c) ==
  CASE c = "Date" -> "date"
    [] c = "Category" -> "category"
    [] c = "Score" -> "score"
    [] c = "Comment" -> "comment"
    [] OTHER -> c

\* pd.to_datetime(cell, errors="coerce")
to_datetime(cell) ==
  CASE cell = "2024-01-05" -> 5 * 1440
    [] cell = "2024-01-20" -> 20 * 1440
    [] cell = "2024-01-20 15:30" -> 20 * 1440 + 15 * 60 + 30
    [] cell = "2024-02-03" -> 34 * 1440
    [] OTHER -> NaT

\* pd.to_numeric(cell, errors="coerce")
to_numeric(cell) ==
  CASE cell = "1" -> 1
    [] cell = "2" -> 2
    [] cell = "3" -> 3
    [] cell = "4" -> 4
    [] cell = "5" -> 5
    [] OTHER -> NaN

\* .dt.strftime("%Y-%m-%d"): the calendar day of a timestamp.
strftime_date(ts) == IF ts = NaT THEN NaT ELSE ts \div 1440

\* .dt.to_period("M").dt.to_timestamp().dt.strftime("%Y-%m-01"): first day of
\* the month (January has 31 days; the inputs lie in January and February).
strftime_month(ts) ==
  IF ts = NaT THEN NaT ELSE IF ts \div 1440 <= 31 THEN 1 ELSE 32

(***************************************************************************)
(* load_data                                                               *)
(***************************************************************************)
Targets == {"created_at", "product", "rating", "review_text"}

\* The alias table, each candidate set in the order the source writes it.
aliases ==
  [created_at  |-> <<"created_at", "date", "timestamp", "created", "submitted_at">>,
   product     |-> <<"product", "category", "service", "queue", "team">>,
   rating      |-> <<"rating", "score", "stars", "satisfaction">>,
   review_text |-> <<"review_text", "comment", "message", "text", "body", "feedback">>]

Range(s) == {s[i] : i \in DOMAIN s}

\* df.columns = [c.strip() for c in df.columns]
stripped(header) == [i \in DOMAIN header |-> strip(header[i])]

\* lower = {c.lower(): c for c in df.columns}: a later column overwrites an
\* earlier one with the same lowercase name.
lower(cols) ==
  [l \in {lower_str(cols[i]) : i \in DOMAIN cols} |->
     LET last == CHOOSE i \in DOMAIN cols :
                   /\ lower_str(cols[i]) = l
                   /\ \A j \in DOMAIN cols : lower_str(cols[j]) = l => j <= i
     IN cols[last]]

\* The renames the alias loop can build.  candidates is a Python set of
\* strings, so "for cand in candidates" visits it in an order that the
\* interpreter's string hashing fixes per process: any present candidate can
\* be the first one found.
rename_choices(cols) ==
  LET low == lower(cols)
      present(t) == Range(aliases[t]) \cap DOMAIN low
  IN {rn \in [Targets -> {low[l] : l \in DOMAIN low} \cup {""}] :
        \A t \in Targets :
          IF t \in Range(cols) \/ present(t) = {}
          THEN rn[t] = ""
          ELSE \E cand \in present(t) : rn[t] = low[cand]}

\* df.rename(columns=rename)
renamed(cols, rn) ==
  [i \in DOMAIN cols |->
     IF \E t \in Targets : rn[t] = cols[i]
     THEN CHOOSE t \in Targets : rn[t] = cols[i]
     ELSE cols[i]]

\* df[name] of one raw row: the cell of the column called name.
cell(cols, row, name) == row[CHOOSE i \in DOMAIN cols : cols[i] = name]

\* Lines 79-88 for one row of the frame: the product default, the parsed
\* types and the derived date fields.  idx is the row's index label.
parsed_row(cols, row, idx) ==
  LET ts == to_datetime(cell(cols, row, "created_at"))
  IN [idx             |-> idx,
      created_at      |-> ts,
      product         |-> IF "product" \in Range(cols)
                          THEN cell(cols, row, "product") ELSE "Unknown",
      rating          |-> to_numeric(cell(cols, row, "rating")),
      review_text     |-> IF "review_text" \in Range(cols)
                          THEN cell(cols, row, "review_text") ELSE NA,
      created_at_date |-> strftime_date(ts),
      month           |-> strftime_month(ts)]

\* The rows of s that satisfy keep, in order.
RECURSIVE SelectRows(_, _)
SelectRows(s, keep) ==
  IF s = <<>> THEN <<>>
  ELSE IF Head(s) \in keep THEN <<Head(s)>> \o SelectRows(Tail(s), keep)
       ELSE SelectRows(Tail(s), keep)

\* dropna with the rating column left out of subset.
dropna_created_at_only(rows) ==
  SelectRows(rows, {r \in Range(rows) : r.created_at # NaT})

\* df.dropna(subset=["created_at", "rating"])
dropna(rows) ==
  SelectRows(rows, {r \in Range(rows) : r.created_at # NaT /\ r.rating # NaN})

\* The frame load_data builds from the file under the rename rn.
load_frame(file, rn) ==
  LET cols == renamed(stripped(file.header), rn)
  IN dropna([k \in DOMAIN file.rows |-> parsed_row(cols, file.rows[k], k)])

\* df.columns when load_data returns.
load_columns(file, rn) ==
  LET cols == renamed(stripped(file.header), rn)
  IN cols \o (IF "product" \in Range(cols) THEN <<>> ELSE <<"product">>)
          \o <<"created_at_date", "month">>

(***************************************************************************)
(* The uploaded files the model is run on.                                 *)
(***************************************************************************)
\* Header lines.  Each column names the field of the logical row it carries.
HCanonical == <<[n |-> "created_at", f |-> "d"], [n |-> "product", f |-> "p"],
                [n |-> "rating", f |-> "r"], [n |-> "review_text", f |-> "t"]>>
HAliased   == <<[n |-> "date", f |-> "d"], [n |-> "service", f |-> "p"],
                [n |-> "stars", f |-> "r"], [n |-> "comment", f |-> "t"]>>
HNoProduct == <<[n |-> "date", f |-> "d"], [n |-> "score", f |-> "r"],
                [n |-> "comment", f |-> "t"]>>
HMixedCase == <<[n |-> "Date", f |-> "d"], [n |-> "Category", f |-> "p"],
                [n |-> "Score", f |-> "r"], [n |-> "Comment", f |-> "t"]>>
HPadded    == <<[n |-> "date", f |-> "d"], [n |-> "product", f |-> "p"],
                [n |-> " stars", f |-> "r"], [n |-> "comment ", f |-> "t"]>>
HTwoAlias  == <<[n |-> "date", f |-> "d"], [n |-> "service", f |-> "p"],
                [n |-> "score", f |-> "r"], [n |-> "stars", f |-> "r2"],
                [n |-> "comment", f |-> "t"]>>
HExactWins == <<[n |-> "date", f |-> "d"], [n |-> "product", f |-> "p"],
                [n |-> "score", f |-> "r2"], [n |-> "rating", f |-> "r"],
                [n |-> "comment", f |-> "t"]>>
HNoDate    == <<[n |-> "when", f |-> "d"], [n |-> "product", f |-> "p"],
                [n |-> "rating", f |-> "r"], [n |-> "review_text", f |-> "t"]>>

AllHeaders == {HCanonical, HAliased, HNoProduct, HMixedCase, HPadded,
               HTwoAlias, HExactWins, HNoDate}

\* Logical rows: date, product, rating and comment cells, and the cell r2 of
\* a second rating-like column when the header has one.
CleanRows ==
  {[d |-> "2024-01-05", p |-> "Widgets", r |-> "2", t |-> "shipping was slow", r2 |-> "4"],
   [d |-> "2024-01-20", p |-> "Widgets", r |-> "5", t |-> "great!", r2 |-> "5"],
   [d |-> "2024-01-20", p |-> "Gadgets", r |-> "1", t |-> "Bad service bad", r2 |-> "3"],
   [d |-> "2024-01-05", p |-> "Gadgets", r |-> "2", t |-> "bad support", r2 |-> "n/a"],
   [d |-> "2024-01-20 15:30", p |-> "Widgets", r |-> "2", t |-> "shipping was slow", r2 |-> "2"]}

DirtyRows ==
  {[d |-> "soon", p |-> "Widgets", r |-> "2", t |-> "great!", r2 |-> "2"],
   [d |-> "2024-01-05", p |-> "Gadgets", r |-> "n/a", t |-> "bad support", r2 |-> "1"],
   [d |-> "", p |-> "Gadgets", r |-> "", t |-> NA, r2 |-> ""],
   [d |-> "2024-02-03", p |-> NA, r |-> "1", t |-> NA, r2 |-> "1"]}

SeqsUpTo(S, n) == UNION {[1..k -> S] : k \in 0..n}

\* The CSV with header line h and logical rows rs.
csv(h, rs) ==
  [header |-> [i \in DOMAIN h |-> h[i].n],
   rows   |-> [k \in DOMAIN rs |-> [i \in DOMAIN h |-> rs[k][h[i].f]]]]

Files(headers, pool) ==
  {csv(h, rs) : h \in headers, rs \in SeqsUpTo(pool, MaxRows)}

\* load_data (lines 45-92).  A frame without a created_at or rating column
\* raises KeyError at line 83/84 and the script stops.
LoadData ==
  /\ pc = "start"
  /\ \E rn \in rename_choices(stripped(uploaded.header)) :
       LET cols == renamed(stripped(uploaded.header), rn)
       IN IF {"created_at", "rating"} \subseteq Range(cols)
          THEN /\ pc' = "loaded"
               /\ rename' = rn
               /\ columns' = load_columns(uploaded, rn)
               /\ df' = load_frame(uploaded, rn)
          ELSE /\ pc' = "KeyError"
               /\ rename' = rn
               /\ UNCHANGED <<columns, df>>
  /\ UNCHANGED <<uploaded, sel_products, sel_dates, kpi, neg_threshold,
                 sort_mode, keyword_filter, neg_df, kw_summary, neg_export,
                 full_slice, rerun>>


(***************************************************************************)
(* Sidebar filters (lines 97-111)                                          *)
(***************************************************************************)
\* .astype(str) of a string cell: NaN prints as "nan".
astype_str(s) == IF s = NA THEN "nan" ELSE s

\* products = sorted(df["product"].astype(str).unique()), as the option set.
products(frame) == {astype_str(r.product) : r \in Range(frame)}

SetMin(S) == CHOOSE x \in S : \A y \in S : x <= y
SetMax(S) == CHOOSE x \in S : \A y \in S : y <= x

\* date_min / date_max: the calendar days of the first and last timestamp.
date_min(frame) == SetMin({r.created_at : r \in Range(frame)}) \div 1440
date_max(frame) == SetMax({r.created_at : r \in Range(frame)}) \div 1440

\* The ranges date_input can return: min_value <= start <= end <= max_value.
\* The model picks the two ends among the calendar days that occur in df.
date_ranges(frame) ==
  LET days == {r.created_at \div 1440 : r \in Range(frame)}
  IN {<<s, e>> \in days \X days :
        date_min(frame) <= s /\ s <= e /\ e <= date_max(frame)}

\* The sidebar widgets.  An empty df has no min/max date to offer (NaT); the
\* pass is not followed further.
Sidebar ==
  /\ pc = "loaded"
  /\ df # <<>>
  /\ sel_products' \in SUBSET products(df)
  /\ sel_dates' \in date_ranges(df)
  /\ pc' = "filtered"
  /\ UNCHANGED <<uploaded, columns, rename, df, kpi, neg_threshold, sort_mode,
                 keyword_filter, neg_df, kw_summary, neg_export, full_slice,
                 rerun>>

(***************************************************************************)
(* SQL WHERE and the KPI query (lines 123-154)                             *)
(***************************************************************************)
\* WHERE product IN (...) AND date(created_at_date) BETWEEN date(?) AND date(?)
\* A NULL product satisfies no IN list.
WHERE(r, prods, dates) ==
  /\ prods # {} => (r.product # NA /\ r.product \in prods)
  /\ dates[1] <= r.created_at_date /\ r.created_at_date <= dates[2]

RECURSIVE SumRatings(_)
SumRatings(rows) ==
  IF rows = <<>> THEN 0 ELSE Head(rows).rating + SumRatings(Tail(rows))

\* ROUND(AVG(rating), 2) in hundredths; AVG over no row is NULL.
SqlNull == -1
round_avg(rows) ==
  IF rows = <<>> THEN SqlNull
  ELSE (200 * SumRatings(rows) + Len(rows)) \div (2 * Len(rows))

\* kpi_sql: one row, COUNT(*) and ROUND(AVG(rating), 2).
kpi_sql(frame, prods, dates) ==
  LET sel == SelectRows(frame, {r \in Range(frame) : WHERE(r, prods, dates)})
  IN [total_tickets |-> Len(sel), avg_rating |-> round_avg(sel)]

\* Lines 151-154.  The aggregate query always returns one row, so kpi.empty
\* is false and the metrics are int(total_tickets) and float(avg_rating);
\* float(None) raises TypeError when AVG is NULL, after the first metric has
\* been shown.
Kpi ==
  /\ pc = "filtered"
  /\ LET row == kpi_sql(df, sel_products, sel_dates)
     IN /\ kpi' = row
        /\ pc' = IF row.avg_rating = SqlNull THEN "TypeError" ELSE "kpi"
  /\ UNCHANGED <<uploaded, columns, rename, df, sel_products, sel_dates,
                 neg_threshold, sort_mode, keyword_filter, neg_df, kw_summary,
                 neg_export, full_slice, rerun>>

(***************************************************************************)
(* Strings as Python sees them: a text is its sequence of characters.      *)
(***************************************************************************)
Chars(s) ==
  CASE s = "" -> <<>>
    [] s = "nan" -> <<"n", "a", "n">>
    [] s = "bad" -> <<"b", "a", "d">>
    [] s = " SLOW " -> <<" ", "S", "L", "O", "W", " ">>
    [] s = "great!" -> <<"g", "r", "e", "a", "t", "!">>
    [] s = "bad support" ->
         <<"b", "a", "d", " ", "s", "u", "p", "p", "o", "r", "t">>
    [] s = "Bad service bad" ->
         <<"B", "a", "d", " ", "s", "e", "r", "v", "i", "c", "e", " ",
           "b", "a", "d">>
    [] s = "shipping was slow" ->
         <<"s", "h", "i", "p", "p", "i", "n", "g", " ", "w", "a", "s", " ",
           "s", "l", "o", "w">>

UpperLetters == <<"A", "B", "C", "D", "E", "F", "G", "H", "I", "J", "K", "L", "M",
                  "N", "O", "P", "Q", "R", "S", "T", "U", "V", "W", "X", "Y", "Z">>
LowerLetters == <<"a", "b", "c", "d", "e", "f", "g", "h", "i", "j", "k", "l", "m",
                  "n", "o", "p", "q", "r", "s", "t", "u", "v", "w", "x", "y", "z">>

\* str.lower(), character by character.
lower_chars(cs) ==
  [i \in DOMAIN cs |->
     IF cs[i] \in Range(UpperLetters)
     THEN LowerLetters[CHOOSE k \in DOMAIN UpperLetters : UpperLetters[k] = cs[i]]
     ELSE cs[i]]

\* str.strip() of a text: leading and trailing blanks removed.
strip_chars(cs) ==
  LET keep == {i \in DOMAIN cs : cs[i] # " "}
  IN IF keep = {} THEN <<>> ELSE SubSeq(cs, SetMin(keep), SetMax(keep))

\* Series.str.contains(pat, case=False) for a pattern of plain letters:
\* pat occurs in text, both lowercased.
contains(text, pat) ==
  LET t == lower_chars(text)
      p == lower_chars(pat)
  IN \E i \in 0..(Len(t) - Len(p)) : SubSeq(t, i + 1, i + Len(p)) = p

(***************************************************************************)
(* Negative slice: mask and sort (lines 225-250)                           *)
(***************************************************************************)
\* pd.to_datetime(date): midnight of that day.
midnight(day) == day * 1440

\* The mask without its rating-threshold line.
mask_without_threshold(r, prods, dates, thr, kw) ==
  /\ prods # {} => r.product \in prods
  /\ midnight(dates[1]) <= r.created_at /\ r.created_at <= midnight(dates[2])
  /\ strip_chars(Chars(kw)) # <<>> =>
       contains(Chars(astype_str(r.review_text)), strip_chars(Chars(kw)))

\* The dataframe-level mask of one row (lines 226-237).
mask(r, prods, dates, thr, kw) ==
  /\ prods # {} => r.product \in prods
  /\ midnight(dates[1]) <= r.created_at /\ r.created_at <= midnight(dates[2])
  /\ r.rating <= thr
  /\ strip_chars(Chars(kw)) # <<>> =>
       contains(Chars(astype_str(r.review_text)), strip_chars(Chars(kw)))

\* df.loc[mask, ["created_at", "product", "rating", "review_text"]]
project(r) ==
  [idx |-> r.idx, created_at |-> r.created_at, product |-> r.product,
   rating |-> r.rating, review_text |-> r.review_text]

neg_slice(frame, prods, dates, thr, kw) ==
  LET kept == SelectRows(frame, {r \in Range(frame) : mask(r, prods, dates, thr, kw)})
  IN [i \in DOMAIN kept |-> project(kept[i])]

\* neg_df["review_text"].astype(str).str.len()
text_len(r) == Len(Chars(astype_str(r.review_text)))

\* The strict order of each sort mode on two rows (lines 242-250).
row_before(mode, a, b) ==
  CASE mode = "Most recent" -> a.created_at > b.created_at
    [] mode = "Lowest rating" ->
         \/ a.rating < b.rating
         \/ a.rating = b.rating /\ a.created_at < b.created_at
    [] mode = "Longest comment" ->
         \/ text_len(a) > text_len(b)
         \/ text_len(a) = text_len(b) /\ a.created_at > b.created_at
    [] mode = "Highest rating" ->
         \/ a.rating > b.rating
         \/ a.rating = b.rating /\ a.created_at > b.created_at

IndexOrders(n) ==
  {p \in [1..n -> 1..n] : \A i, j \in 1..n : p[i] = p[j] => i = j}

\* The index orders sort_values can return.  With several keys pandas sorts
\* with a stable lexsort: rows equal on every key keep their input order.
\* With the single key of "Most recent" it uses kind="quicksort", which is
\* not stable: rows with equal created_at come out in an order the numpy
\* build chooses, so every order that is sorted on the key is possible.
sort_orders(rows, mode) ==
  LET n == Len(rows)
      sorted(p) == \A i, j \in 1..n : i < j => ~row_before(mode, rows[p[j]], rows[p[i]])
      stable(p) == \A i, j \in 1..n :
                     (i < j /\ ~row_before(mode, rows[p[i]], rows[p[j]])) => p[i] < p[j]
  IN IF mode = "Most recent"
     THEN {p \in IndexOrders(n) : sorted(p)}
     ELSE {p \in IndexOrders(n) : sorted(p) /\ stable(p)}

sort_values(rows, mode) ==
  {[i \in DOMAIN rows |-> rows[p[i]]] : p \in sort_orders(rows, mode)}

SortModes == {"Most recent", "Lowest rating", "Longest comment", "Highest rating"}
\* st.slider("Show ratings <=", 1, 5, 3)
Thresholds == 1..5
\* Keyword filters typed into the text input.
Keywords == {"", "bad", " SLOW "}

\* The controls, the mask, the projection and the sort (lines 216-250).
NegSlice ==
  /\ pc = "kpi"
  /\ \E thr \in Thresholds, mode \in SortModes, kw \in Keywords :
       /\ neg_threshold' = thr
       /\ sort_mode' = mode
       /\ keyword_filter' = kw
       /\ neg_df' \in sort_values(neg_slice(df, sel_products, sel_dates, thr, kw), mode)
  /\ pc' = "sorted"
  /\ UNCHANGED <<uploaded, columns, rename, df, sel_products, sel_dates, kpi,
                 kw_summary, neg_export, full_slice, rerun>>

(***************************************************************************)
(* Keyword frequency (lines 262-323)                                       *)
(***************************************************************************)
STOP ==
  {"a", "an", "the", "and", "or", "but", "if", "then", "this", "that", "to",
   "of", "in", "on", "for", "from", "with", "by", "as", "is", "are", "was",
   "were", "be", "been", "being",
   "i", "you", "he", "she", "it", "we", "they", "my", "your", "our", "their",
   "me", "us", "them", "not", "no", "yes", "very", "more", "most", "less",
   "least", "so", "too",
   "it's", "i'm", "i've", "you're", "we'll", "can't", "won't", "didn't",
   "don't", "does", "do", "did", "could", "would", "should"}

\* A character of the class [A-Za-z'].
is_word_char(c) ==
  c \in Range(UpperLetters) \cup Range(LowerLetters) \cup {"'"}

\* re.findall(r"[A-Za-z']+", ...): the maximal runs of word characters, each
\* as a string; cur is the run being read.
RECURSIVE findall(_, _)
findall(cs, cur) ==
  LET flush == IF cur = "" THEN <<>> ELSE <<cur>>
  IN IF cs = <<>> THEN flush
     ELSE IF is_word_char(Head(cs)) THEN findall(Tail(cs), cur \o Head(cs))
          ELSE flush \o findall(Tail(cs), "")

RECURSIVE SelectWords(_)
SelectWords(ws) ==
  IF ws = <<>> THEN <<>>
  ELSE IF Len(Head(ws)) > 2 /\ Head(ws) \notin STOP
       THEN <<Head(ws)>> \o SelectWords(Tail(ws))
       ELSE SelectWords(Tail(ws))

\* The distinct elements of s in order of first occurrence.
RECURSIVE FirstSeen(_, _)
FirstSeen(s, seen) ==
  IF s = <<>> THEN <<>>
  ELSE IF Head(s) \in seen THEN FirstSeen(Tail(s), seen)
       ELSE <<Head(s)>> \o FirstSeen(Tail(s), seen \cup {Head(s)})

\* tokenize returning each word of a comment once.
tokenize_once(s) == FirstSeen(SelectWords(findall(lower_chars(Chars(s)), "")), {})

\* tokenize(s) (lines 276-278)
tokenize(s) == SelectWords(findall(lower_chars(Chars(s)), ""))

\* token_lists: one token list per row of the slice (lines 280-285).
token_lists(rows) ==
  [i \in DOMAIN rows |-> tokenize(astype_str(rows[i].review_text))]

\* all_words: the token lists, concatenated in row order.
RECURSIVE Concat(_)
Concat(ss) == IF ss = <<>> THEN <<>> ELSE Head(ss) \o Concat(Tail(ss))

all_words(rows) == Concat(token_lists(rows))

\* A stable sort of s by a strict weak order, given on the positions of s:
\* before[i, j] says that s[i] sorts before s[j].
stable_sort(s, before) ==
  LET n == Len(s)
      pos(i) == Cardinality({j \in 1..n :
                  before[j, i] \/ (~before[i, j] /\ j < i)}) + 1
  IN [k \in 1..n |-> s[CHOOSE i \in 1..n : pos(i) = k]]

\* Counter(all_words)[w]: every occurrence counts.
mentions(words, w) == Cardinality({i \in DOMAIN words : words[i] = w})

\* most_common(15)
TopN == 15

\* kw_freq = Counter(all_words).most_common(15): by count, largest first,
\* equal counts in order of first occurrence (lines 289-290).
kw_freq(rows) ==
  LET words == all_words(rows)
      seen == FirstSeen(words, {})
      counted == [i \in DOMAIN seen |->
                    [keyword |-> seen[i], mentions |-> mentions(words, seen[i])]]
      more == [i, j \in DOMAIN counted |-> counted[i].mentions > counted[j].mentions]
      ranked == stable_sort(counted, more)
  IN SubSeq(ranked, 1, IF Len(ranked) < TopN THEN Len(ranked) ELSE TopN)

\* kw_stats for one keyword (lines 293-303): over the rows whose token SET
\* holds it, the mean rating (as the fraction num/den) and the row count.
kw_stats(rows, w) ==
  LET toks == token_lists(rows)
      hit == {i \in DOMAIN rows : w \in Range(toks[i])}
      hits == SelectRows(rows, {rows[i] : i \in hit})
  IN [avg_rating |-> [num |-> SumRatings(hits), den |-> Cardinality(hit)],
      count |-> Cardinality(hit)]

\* kw_summary (lines 305-306): kw_freq left-joined with kw_stats, sorted by
\* mentions descending, then avg_rating ascending.
kw_table(rows) ==
  LET freq == kw_freq(rows)
      merged == [i \in DOMAIN freq |->
                   [keyword    |-> freq[i].keyword,
                    mentions   |-> freq[i].mentions,
                    avg_rating |-> kw_stats(rows, freq[i].keyword).avg_rating,
                    count      |-> kw_stats(rows, freq[i].keyword).count]]
      first == [i, j \in DOMAIN merged |->
        LET a == merged[i]
            b == merged[j]
        IN \/ a.mentions > b.mentions
           \/ /\ a.mentions = b.mentions
              /\ a.avg_rating.num * b.avg_rating.den
                   < b.avg_rating.num * a.avg_rating.den]
  IN stable_sort(merged, first)

\* Section 2 of the negative insights: nothing is computed for an empty slice
\* or when no keyword is extracted.
KeywordFrequency ==
  /\ pc = "sorted"
  /\ kw_summary' = IF neg_df = <<>> \/ all_words(neg_df) = <<>>
                   THEN <<>> ELSE kw_table(neg_df)
  /\ pc' = "keywords"
  /\ UNCHANGED <<uploaded, columns, rename, df, sel_products, sel_dates, kpi,
                 neg_threshold, sort_mode, keyword_filter, neg_df, neg_export,
                 full_slice, rerun>>

(***************************************************************************)
(* Exports (lines 325-373)                                                 *)
(***************************************************************************)
\* The export without the second threshold check.
export_unfiltered(rows, thr) == rows

\* neg_export[neg_export["rating"] <= neg_threshold], after to_numeric with
\* errors="coerce": a NaN rating compares False.
export_filter(rows, thr) ==
  SelectRows(rows, {r \in Range(rows) : r.rating # NaN /\ r.rating <= thr})

ExportNeg ==
  /\ pc = "keywords"
  /\ neg_export' = export_filter(neg_df, neg_threshold)
  /\ pc' = "exported"
  /\ UNCHANGED <<uploaded, columns, rename, df, sel_products, sel_dates, kpi,
                 neg_threshold, sort_mode, keyword_filter, neg_df, kw_summary,
                 full_slice, rerun>>

\* full_slice (lines 348-355): the sidebar filters on df, in pandas.
full_filter(frame, prods, dates) ==
  SelectRows(frame, {r \in Range(frame) :
    /\ prods # {} => r.product \in prods
    /\ midnight(dates[1]) <= r.created_at /\ r.created_at <= midnight(dates[2])})

ExportFull ==
  /\ pc = "exported"
  /\ full_slice' = full_filter(df, sel_products, sel_dates)
  /\ pc' = "done"
  /\ UNCHANGED <<uploaded, columns, rename, df, sel_products, sel_dates, kpi,
                 neg_threshold, sort_mode, keyword_filter, neg_df, kw_summary,
                 neg_export, rerun>>

\* The slice-then-sort step of lines 225-250 run again, with the same
\* controls, on the slice it produced.
RerunNegSlice ==
  /\ pc = "done"
  /\ rerun' \in sort_values(neg_slice(neg_df, sel_products, sel_dates,
                                      neg_threshold, keyword_filter), sort_mode)
  /\ pc' = "rerun"
  /\ UNCHANGED <<uploaded, columns, rename, df, sel_products, sel_dates, kpi,
                 neg_threshold, sort_mode, keyword_filter, neg_df, kw_summary,
                 neg_export, full_slice>>

(***************************************************************************)
(* Specifications                                                          *)
(***************************************************************************)
NoRename == [t \in Targets |-> ""]

InitWith(files) ==
  /\ uploaded \in files
  /\ pc = "start"
  /\ columns = <<>>
  /\ rename = NoRename
  /\ df = <<>>
  /\ sel_products = {}
  /\ sel_dates = <<0, 0>>
  /\ kpi = [total_tickets |-> 0, avg_rating |-> 0]
  /\ neg_threshold = 3
  /\ sort_mode = "Most recent"
  /\ keyword_filter = ""
  /\ neg_df = <<>>
  /\ kw_summary = <<>>
  /\ neg_export = <<>>
  /\ full_slice = <<>>
  /\ rerun = <<>>

\* One render pass on a CSV with the aliased header line and clean rows.
Init == InitWith(Files({HAliased}, CleanRows))
Next ==
  \/ LoadData
  \/ Sidebar
  \/ Kpi
  \/ NegSlice
  \/ KeywordFrequency
  \/ ExportNeg
  \/ ExportFull
Spec == Init /\ [][Next]_vars

\* load_data alone, on every header line and on clean and dirty rows.
InitLoad == InitWith(Files(AllHeaders, CleanRows \cup DirtyRows))
NextLoad == LoadData
SpecLoad == InitLoad /\ [][NextLoad]_vars

\* The render pass followed by a second run of the slice-then-sort step.
NextRerun == Next \/ RerunNegSlice
SpecRerun == Init /\ [][NextRerun]_vars

\* The export step alone, handed any slice: rows of any rating, parsed or not.
UpstreamSlices ==
  {[i \in DOMAIN rs |->
      project(parsed_row(<<"created_at", "product", "rating", "review_text">>,
                         <<rs[i].d, rs[i].p, rs[i].r, rs[i].t>>, i))] :
     rs \in SeqsUpTo(CleanRows \cup DirtyRows, MaxRows)}

InitExport ==
  /\ uploaded = csv(HCanonical, <<>>)
  /\ pc = "keywords"
  /\ columns = <<>>
  /\ rename = NoRename
  /\ df = <<>>
  /\ sel_products = {}
  /\ sel_dates = <<0, 0>>
  /\ kpi = [total_tickets |-> 0, avg_rating |-> 0]
  /\ neg_threshold \in Thresholds
  /\ sort_mode = "Most recent"
  /\ keyword_filter = ""
  /\ neg_df \in UpstreamSlices
  /\ kw_summary = <<>>
  /\ neg_export = <<>>
  /\ full_slice = <<>>
  /\ rerun = <<>>
NextExport == ExportNeg
SpecExport == InitExport /\ [][NextExport]_vars

(***************************************************************************)
(* Properties                                                              *)
(***************************************************************************)
AfterKpi    == {"kpi", "TypeError", "sorted", "keywords", "exported", "done", "rerun"}
AfterSort   == {"sorted", "keywords", "exported", "done", "rerun"}
AfterKw     == {"keywords", "exported", "done", "rerun"}
AfterExport == {"exported", "done", "rerun"}
AfterFull   == {"done", "rerun"}

Idx(rows) == {r.idx : r \in Range(rows)}

\* The filter as the specification words it: the product set (empty = all)
\* and the calendar day of created_at in [start_date, end_date].
ProductOk(r) == sel_products = {} \/ astype_str(r.product) \in sel_products
DayOk(r) ==
  /\ sel_dates[1] <= r.created_at \div 1440
  /\ r.created_at \div 1440 <= sel_dates[2]
KeywordOk(r) ==
  strip_chars(Chars(keyword_filter)) # <<>> =>
    contains(Chars(astype_str(r.review_text)), strip_chars(Chars(keyword_filter)))
Selected == {r \in Range(df) : ProductOk(r) /\ DayOk(r)}

\* C1: when no row of the table matches the product/date filter, the KPI
\* step completes without an error and reports total = 0 and avg_rating = 0.0.
C1_EmptySelectionKpi ==
  (pc \in AfterKpi /\ Selected = {}) =>
    /\ pc # "TypeError"
    /\ kpi = [total_tickets |-> 0, avg_rating |-> 0]

\* C2: in the KPI query, in the negative-insight mask and in the full export
\* a row is included iff the calendar day of its created_at lies in
\* [start_date, end_date], both ends inclusive, whatever its time of day.
C2_DayInclusiveEverywhere ==
  /\ pc \in AfterKpi => kpi.total_tickets = Cardinality(Selected)
  /\ pc \in AfterSort =>
       Idx(neg_df) = {r.idx : r \in {x \in Selected :
                        x.rating <= neg_threshold /\ KeywordOk(x)}}
  /\ pc \in AfterFull => Idx(full_slice) = {r.idx : r \in Selected}

\* The negative slice of the keyword example: "Bad service bad" rated 1 and
\* "bad support" rated 2, and nothing else.
BadSlice ==
  /\ Len(neg_df) = 2
  /\ {<<r.review_text, r.rating>> : r \in Range(neg_df)} =
       {<<"Bad service bad", 1>>, <<"bad support", 2>>}

BadRows == {i \in DOMAIN kw_summary : kw_summary[i].keyword = "bad"}

\* C3 as stated: on that slice the row of keyword "bad" has mentions = 2 and
\* avg_rating = 1.5.
C3_BadMentionedTwice ==
  (pc \in AfterKw /\ BadSlice) =>
    \E i \in BadRows :
      /\ kw_summary[i].mentions = 2
      /\ 2 * kw_summary[i].avg_rating.num = 3 * kw_summary[i].avg_rating.den

\* C3 amended: on that slice there is one row of keyword "bad"; its mentions
\* is 3, every occurrence counted, and its avg_rating is 1.5 over count = 2
\* comments, each comment counted once.
C3_BadMentionedThrice ==
  (pc \in AfterKw /\ BadSlice) =>
    /\ Cardinality(BadRows) = 1
    /\ \A i \in BadRows :
         /\ kw_summary[i].mentions = 3
         /\ kw_summary[i].count = 2
         /\ 2 * kw_summary[i].avg_rating.num = 3 * kw_summary[i].avg_rating.den

C3_Witness == pc = "keywords" /\ BadSlice /\ BadRows # {}

\* C4: the exported negative slice holds no row with rating > neg_threshold,
\* whatever slice the export step was handed; the rows at or below the
\* threshold are exported in their order.
C4_ExportWithinThreshold ==
  pc \in AfterExport =>
    /\ \A r \in Range(neg_export) : ~(r.rating > neg_threshold)
    /\ \A r \in Range(neg_df) :
         (r.rating # NaN /\ r.rating <= neg_threshold) => r \in Range(neg_export)
    /\ Range(neg_export) \subseteq Range(neg_df)

C4_Witness ==
  /\ pc = "exported"
  /\ neg_export # <<>>
  /\ \E r \in Range(neg_df) : r.rating > neg_threshold

\* The cells of raw row k under the final column called name.
RawCell(k, name) ==
  uploaded.rows[k][CHOOSE i \in DOMAIN columns : columns[i] = name]
Parses(k) ==
  /\ to_datetime(RawCell(k, "created_at")) # NaT
  /\ to_numeric(RawCell(k, "rating")) # NaN

\* C5: load_data returns exactly the input rows whose created_at parses as a
\* timestamp and whose rating parses as a number, each once and in input
\* order; every returned row has non-null created_at and rating, and the
\* output has no more rows than the input.
C5_LoadKeepsParsedRows ==
  pc = "loaded" =>
    /\ Idx(df) = {k \in DOMAIN uploaded.rows : Parses(k)}
    /\ \A i, j \in DOMAIN df : i < j => df[i].idx < df[j].idx
    /\ \A r \in Range(df) : r.created_at # NaT /\ r.rating # NaN
    /\ \A i \in DOMAIN df :
         /\ df[i].created_at = to_datetime(RawCell(df[i].idx, "created_at"))
         /\ df[i].rating = to_numeric(RawCell(df[i].idx, "rating"))
    /\ Len(df) <= Len(uploaded.rows)

C5_Witness ==
  /\ pc = "loaded"
  /\ df # <<>>
  /\ \E k \in DOMAIN uploaded.rows :
       /\ to_datetime(RawCell(k, "created_at")) # NaT
       /\ to_numeric(RawCell(k, "rating")) = NaN

\* The column the alias loop renames for target t when the candidates are
\* tried in the order the source lists them.
FirstAlias(t, cols) ==
  LET low == lower(cols)
      found == {i \in DOMAIN aliases[t] : aliases[t][i] \in DOMAIN low}
  IN IF found = {} THEN "" ELSE low[aliases[t][SetMin(found)]]

\* C6: a target whose canonical name is a column renames nothing; otherwise
\* the first alias present, in the fixed candidate order, is renamed, the
\* canonical name then exists and the alias column does not, and the choice
\* is a function of the input columns.
C6_FirstAliasRenamed ==
  pc \in {"loaded", "KeyError"} =>
    \A t \in Targets :
      LET cols == stripped(uploaded.header)
      IN /\ t \in Range(cols) => rename[t] = ""
         /\ t \notin Range(cols) =>
              /\ rename[t] = FirstAlias(t, cols)
              /\ (pc = "loaded" /\ rename[t] # "") =>
                   (t \in Range(columns) /\ rename[t] \notin Range(columns))

\* The file of the end-to-end scenario.
ScenarioFile ==
  [header |-> <<"date", "service", "stars", "comment">>,
   rows   |-> << <<"2024-01-05", "Widgets", "2", "shipping was slow">>,
                 <<"2024-01-20", "Widgets", "5", "great!">> >>]

ScenarioFilters == sel_products = {"Widgets"} /\ sel_dates = <<5, 20>>

\* C7: on the scenario file, with all products and the full date range,
\* both rows load with product "Widgets", the KPI is total = 2 and
\* avg_rating = 3.50, and with neg_threshold = 3 and no keyword the negative
\* slice is exactly the first row.
C7_EndToEnd ==
  uploaded = ScenarioFile =>
    /\ pc # "KeyError"
    /\ pc # "start" =>
         /\ Len(df) = 2
         /\ \A r \in Range(df) : r.product = "Widgets"
         /\ products(df) = {"Widgets"}
         /\ <<date_min(df), date_max(df)>> = <<5, 20>>
    /\ (pc \in AfterKpi /\ ScenarioFilters) =>
         /\ pc # "TypeError"
         /\ kpi = [total_tickets |-> 2, avg_rating |-> 350]
    /\ (pc \in AfterSort /\ ScenarioFilters /\ neg_threshold = 3
          /\ keyword_filter = "") =>
         /\ Len(neg_df) = 1
         /\ neg_df[1] = [idx |-> 1, created_at |-> 5 * 1440, product |-> "Widgets",
                         rating |-> 2, review_text |-> "shipping was slow"]

C7_Witness ==
  /\ uploaded = ScenarioFile
  /\ pc = "sorted"
  /\ ScenarioFilters
  /\ neg_threshold = 3
  /\ keyword_filter = ""
  /\ neg_df # <<>>

\* The rows of a slice as displayed: its four columns, without the index.
Shown(rows) ==
  [i \in DOMAIN rows |->
     <<rows[i].created_at, rows[i].product, rows[i].rating, rows[i].review_text>>]

\* C8: running the slice-then-sort step again on its own output, with the
\* same sort mode, yields the same row order.
C8_ResortKeepsOrder == pc = "rerun" => Shown(rerun) = Shown(neg_df)

\* C9: every row load_data returns has a non-null product.
C9_ProductNeverNull ==
  pc = "loaded" =>
    /\ "product" \in Range(columns)
    /\ \A r \in Range(df) : r.product # NA

\* C10: the SQL selection and the pandas selections agree: the full export
\* holds the rows the KPI total counts, and the negative slice holds the
\* rows of the SQL selection with rating <= neg_threshold that match the
\* keyword.
C10_FiltersAgree ==
  LET sql == {r \in Range(df) : WHERE(r, sel_products, sel_dates)}
  IN /\ pc \in AfterFull =>
          /\ Idx(full_slice) = {r.idx : r \in sql}
          /\ Len(full_slice) = kpi.total_tickets
     /\ pc \in AfterSort =>
          Idx(neg_df) = {r.idx : r \in {x \in sql :
                           x.rating <= neg_threshold /\ KeywordOk(x)}}
====
